---- MODULE Spec2Model ----
(***************************************************************************)
(* Connect 4: the board engine (State::try_move) and the depth-bounded     *)
(* search (find_next_move) of src/src/main.rs, with the game loop of main. *)
(***************************************************************************)
EXTENDS Integers, Sequences, FiniteSets, TLC

VARIABLES state, pc, depth, parallelize, move_states, moves_evals, pending, result

vars == <<state, pc, depth, parallelize, move_states, moves_evals, pending, result>>

\* ---------------------------------------------------------------- constants
COLUMNS == 7
ROWS == 6
WINNING_LENGTH == 4
\* the literal range 0..7 of the column loop of find_next_move
SEARCH_COLUMNS == 7
\* the placeholder column of a result slot that no worker has written yet
PLACEHOLDER == 255

\* ------------------------------------------------------------------- bounds
\* boards with fewer than MaxMoves pieces are left by every playable column
MaxMoves == 4
\* boards with at most MaxFree empty cells are left by any column; a fuller
\* board only by the next column of a recorded game
MaxFree == 6
\* depth budgets 0..MaxDepth are passed to find_next_move
MaxDepth == 2

\* -------------------------------------------------------------------- types
O == "O"
X == "X"
Player == {O, X}
Empty == "Empty"
Set(player) == player
Cell == {Empty} \cup {Set(p) : p \in Player}

other(self) == IF self = O THEN X ELSE O

ColumnIdx == 0 .. (COLUMNS - 1)
RowIdx == 0 .. (ROWS - 1)

State(cells, player) == [cells |-> cells, player |-> player]

Impossible == [kind |-> "Impossible"]
Victory == [kind |-> "Victory"]
Continues(next) == [kind |-> "State", state |-> next]

ImmediateVictory == "ImmediateVictory"
AssuredVictory == "AssuredVictory"
AssuredLoss == "AssuredLoss"
Neutral == "Neutral"
Eval == {ImmediateVictory, AssuredVictory, AssuredLoss, Neutral}

Min(a, b) == IF a <= b THEN a ELSE b

\* ------------------------------------------------------------- board engine
\* state[(column, row)]: column left to right, row top to bottom
At(self, column, row) == self.cells[row][column]

turn(self) ==
    Cardinality({cr \in ColumnIdx \X RowIdx : At(self, cr[1], cr[2]) # Empty})

\* the loop of the nested fn row, from row r on
RECURSIVE row_from(_, _, _)
row_from(self, column, r) ==
    IF r >= ROWS THEN ROWS - 1
    ELSE IF At(self, column, r) # Empty THEN r - 1
    ELSE row_from(self, column, r + 1)

\* faulty variant: the loop starts one row too low
row_late(self, column) == row_from(self, column, 2)

row(self, column) == row_from(self, column, 1)

\* One scanning loop of try_move: the number of iterations, for offset in
\* offset..end-1, that find the mover's piece at (column + dc*offset,
\* row + dr*offset) before the first break.
RECURSIVE count_run(_, _, _, _, _, _, _)
count_run(self, column, r, dc, dr, offset, end) ==
    IF offset >= end THEN 0
    ELSE IF At(self, column + dc * offset, r + dr * offset) = Set(self.player)
         THEN 1 + count_run(self, column, r, dc, dr, offset + 1, end)
         ELSE 0

\* faulty variant: the scan to the right is left out
horizontal_left_only(self, column, r) ==
    LET min_column == column - count_run(self, column, r, -1, 0, 1, column + 1)
        max_column == column
    IN  max_column - min_column + 1 >= WINNING_LENGTH

horizontal(self, column, r) ==
    LET min_column == column - count_run(self, column, r, -1, 0, 1, column + 1)
        max_column == column + count_run(self, column, r, 1, 0, 1, COLUMNS - column)
    IN  max_column - min_column + 1 >= WINNING_LENGTH

vertical(self, column, r) ==
    LET min_row == r - count_run(self, column, r, 0, -1, 1, r + 1)
        max_row == r + count_run(self, column, r, 0, 1, 1, ROWS - r)
    IN  max_row - min_row + 1 >= WINNING_LENGTH

\* the exclusive ends of the offset loops of the two diagonal scans
up_left_end(column, r) == Min(ROWS - r, column + 1)

up_right_end(column, r) == Min(r + 1, COLUMNS - column)

\* faulty variant: the larger of row and column bounds the scan
down_left_end_max(column, r) == (IF r >= column THEN r ELSE column) + 1

down_left_end(column, r) == Min(r, column) + 1

down_right_end(column, r) == Min(ROWS - r, COLUMNS - column)

\* faulty variant: the run has to exceed the winning length
diagonal_up_exceeds(self, column, r) ==
    LET min == column - count_run(self, column, r, -1, 1, 1, Min(ROWS - r, column + 1))
        max == column + count_run(self, column, r, 1, -1, 1, Min(r + 1, COLUMNS - column))
    IN  max - min + 1 > WINNING_LENGTH

\* bottom-left to top-right
diagonal_up(self, column, r) ==
    LET min == column - count_run(self, column, r, -1, 1, 1, up_left_end(column, r))
        max == column + count_run(self, column, r, 1, -1, 1, up_right_end(column, r))
    IN  max - min + 1 >= WINNING_LENGTH

\* faulty variant: the scan to the top left stops one cell early
diagonal_down_short(self, column, r) ==
    LET min == column - count_run(self, column, r, -1, -1, 1, Min(r, column))
        max == column + count_run(self, column, r, 1, 1, 1, Min(ROWS - r, COLUMNS - column))
    IN  max - min + 1 >= WINNING_LENGTH

\* top-left to bottom-right
diagonal_down(self, column, r) ==
    LET min == column - count_run(self, column, r, -1, -1, 1, down_left_end(column, r))
        max == column + count_run(self, column, r, 1, 1, 1, down_right_end(column, r))
    IN  max - min + 1 >= WINNING_LENGTH

\* faulty variant: the bottom cell is tested
playable_bottom(self, column) == At(self, column, ROWS - 1) = Empty

\* the top cell of the column is free
playable(self, column) == At(self, column, 0) = Empty

\* faulty variant: the turn is not passed on
new_state_same_turn(self, column, r) ==
    State([self.cells EXCEPT ![r][column] = Set(self.player)], self.player)

\* faulty variant: the piece put on the board is the opponent's
new_state_opponent_piece(self, column, r) ==
    State([self.cells EXCEPT ![r][column] = Set(other(self.player))], other(self.player))

\* the successor board: the mover's piece on (column, r), the turn passed on
new_state(self, column, r) ==
    State([self.cells EXCEPT ![r][column] = Set(self.player)], other(self.player))

try_move(self, column) ==
    IF playable(self, column)
    THEN LET r == row(self, column)
         IN  IF horizontal(self, column, r) THEN Victory
             ELSE IF vertical(self, column, r) THEN Victory
             ELSE IF diagonal_up(self, column, r) THEN Victory
             ELSE IF diagonal_down(self, column, r) THEN Victory
             ELSE Continues(new_state(self, column, r))
    ELSE Impossible

\* ------------------------------------------------------------ start boards
FromRows(rows) == [r \in RowIdx |-> [c \in ColumnIdx |-> rows[r + 1][c + 1]]]

\* main: State(Default::default(), Player::O)
EmptyState == State([r \in RowIdx |-> [c \in ColumnIdx |-> Empty]], O)

\* the two boards of test_winning_moves
TestState1 ==
    LET e == Empty
    IN  State(FromRows(<<
            <<e, e, e, e, e, X, e>>,
            <<e, e, e, e, e, X, e>>,
            <<e, e, e, e, e, O, e>>,
            <<X, O, e, e, e, X, e>>,
            <<X, O, O, e, e, X, e>>,
            <<X, O, O, O, e, X, e>> >>), O)

TestState2 ==
    LET e == Empty
    IN  State(FromRows(<<
            <<e, e, e, e, e, e, e>>,
            <<e, e, e, e, O, e, e>>,
            <<e, e, e, e, O, O, e>>,
            <<e, e, X, e, O, X, X>>,
            <<e, e, O, e, X, X, O>>,
            <<X, e, O, O, X, O, X>> >>), O)

TestStates == {TestState1, TestState2}

\* -------------------------------------------------------- recorded games
\* A complete game of 42 moves in which no player ever has a winning column.
DrawnGame ==
    <<0, 0, 0, 0, 0, 0, 1, 1, 1, 1, 1, 1, 2, 3, 2, 2, 2, 2, 2, 3, 4,
      3, 3, 3, 3, 4, 4, 4, 5, 6, 5, 6, 5, 5, 6, 6, 4, 6, 5, 4, 5, 6>>

\* After two full columns O builds a double threat on the bottom row
\* (columns 2 and 6) and X does not answer it.
ThreatGame == <<0, 0, 0, 0, 0, 0, 1, 1, 1, 1, 1, 1, 4, 4, 5, 5, 3, 3>>

Games == <<DrawnGame, ThreatGame>>

\* the board after the first n moves of a recorded game: the j-th piece
\* dropped into a column lies j cells above the floor, and O moves first
BoardAfter(game, n) ==
    LET drops(c) == {i \in 1 .. n : game[i] = c}
        nth(c, j) == CHOOSE i \in drops(c) :
                         Cardinality({k \in drops(c) : k < i}) = j - 1
    IN  State([r \in RowIdx |-> [c \in ColumnIdx |->
                  IF Cardinality(drops(c)) >= ROWS - r
                  THEN IF nth(c, ROWS - r) % 2 = 1 THEN Set(O) ELSE Set(X)
                  ELSE Empty]],
              IF n % 2 = 0 THEN O ELSE X)

\* few enough cells are left to follow every column
Endgame(self) == ROWS * COLUMNS - turn(self) <= MaxFree

\* column continues a recorded game from this board
Recorded(self, column) ==
    LET n == turn(self)
    IN  \E g \in 1 .. Len(Games) :
            /\ n < Len(Games[g])
            /\ Games[g][n + 1] = column
            /\ BoardAfter(Games[g], n) = self

\* ------------------------------------------------------------ search engine
\* faulty variant: the loop goes on after a Victory and reports the last one
RECURSIVE collect_last(_, _, _)
collect_last(self, column, acc) ==
    IF column >= SEARCH_COLUMNS
    THEN [victory |-> FALSE, column |-> PLACEHOLDER, move_states |-> acc]
    ELSE LET r == try_move(self, column)
             rest == collect_last(self, column + 1,
                         IF r.kind = "State" THEN Append(acc, <<column, r.state>>) ELSE acc)
         IN  IF r.kind = "Victory" /\ ~rest.victory
             THEN [victory |-> TRUE, column |-> column, move_states |-> acc]
             ELSE rest

\* the column loop that opens find_next_move, from column on: it returns at
\* the first Victory, skips Impossible columns and pushes (column, next)
RECURSIVE collect(_, _, _)
collect(self, column, acc) ==
    IF column >= SEARCH_COLUMNS
    THEN [victory |-> FALSE, column |-> PLACEHOLDER, move_states |-> acc]
    ELSE LET r == try_move(self, column)
         IN  IF r.kind = "Victory"
             THEN [victory |-> TRUE, column |-> column, move_states |-> acc]
             ELSE IF r.kind = "Impossible"
             THEN collect(self, column + 1, acc)
             ELSE collect(self, column + 1, Append(acc, <<column, r.state>>))

is_winning(slot) == slot[2] \in {ImmediateVictory, AssuredVictory}
\* faulty variant: a Neutral slot counts as a loss of the opponent
is_losing_or_open(slot) == slot[2] \in {AssuredLoss, Neutral}

is_losing(slot) == slot[2] = AssuredLoss
not_winning(slot) == ~is_winning(slot)

\* faulty variant: the position of the slot is returned, not its column
columns_of_position(slots) == [i \in 1 .. Len(slots) |-> i - 1]

\* moves_evals.iter().map(|(column, ..)| *column).collect()
columns_of(slots) == [i \in 1 .. Len(slots) |-> slots[i][1]]

\* faulty variant: retain keeps every slot that is not a win of the opponent
retain_losing_or_open(slots) == SelectSeq(slots, not_winning)

\* moves_evals.retain(..) of the AssuredVictory branch
retain_losing(slots) == SelectSeq(slots, is_losing)

\* faulty variant: retain keeps every slot
retain_every(slots) == slots

\* faulty variant: the Neutral branch repeats the retain of the branch above
retain_losing_again(slots) == SelectSeq(slots, is_losing)

\* moves_evals.retain(..) of the Neutral branch
retain_not_winning(slots) == SelectSeq(slots, not_winning)

\* faulty variant: the AssuredLoss branch filters the winning replies out as well
classify_hiding(slots) ==
    IF \A i \in 1 .. Len(slots) : is_winning(slots[i])
    THEN [moves |-> columns_of(retain_not_winning(slots)), eval |-> AssuredLoss]
    ELSE IF \E i \in 1 .. Len(slots) : is_losing(slots[i])
    THEN [moves |-> columns_of(retain_losing(slots)), eval |-> AssuredVictory]
    ELSE [moves |-> columns_of(retain_not_winning(slots)), eval |-> Neutral]

\* the aggregation of the slots into the returned (next_moves, eval)
classify(slots) ==
    IF \A i \in 1 .. Len(slots) : is_winning(slots[i])
    THEN [moves |-> columns_of(slots), eval |-> AssuredLoss]
    ELSE IF \E i \in 1 .. Len(slots) : is_losing(slots[i])
    THEN [moves |-> columns_of(retain_losing(slots)), eval |-> AssuredVictory]
    ELSE [moves |-> columns_of(retain_not_winning(slots)), eval |-> Neutral]

RECURSIVE find_next_move(_, _)

\* faulty variant: the last level of the depth budget is not searched
eval_short(candidate, d) ==
    <<candidate[1],
      IF d > 1 THEN find_next_move(candidate[2], d - 1).eval ELSE Neutral>>

\* faulty variant: the depth guard is off by one, a budget of 0 still
\* searches one level
eval_late(candidate, d) ==
    <<candidate[1],
      IF d >= 0 THEN find_next_move(candidate[2], d - 1).eval ELSE Neutral>>

\* the closure eval: what it stores in the slot of candidate (column, next)
eval(candidate, d) ==
    <<candidate[1],
      IF d > 0 THEN find_next_move(candidate[2], d - 1).eval ELSE Neutral>>

\* find_next_move(state, depth, false): the sequential evaluation
find_next_move(self, d) ==
    LET c == collect(self, 0, <<>>)
    IN  IF c.victory
        THEN [moves |-> <<c.column>>, eval |-> ImmediateVictory]
        ELSE classify([i \in 1 .. Len(c.move_states) |-> eval(c.move_states[i], d)])

\* --------------------------------------------------------------- machine
NoResult == [moves |-> <<>>, eval |-> Neutral]

Idle ==
    /\ pc = "idle"
    /\ depth = 0
    /\ parallelize = FALSE
    /\ move_states = <<>>
    /\ moves_evals = <<>>
    /\ pending = {}
    /\ result = NoResult

Init == state = EmptyState /\ Idle

InitBoard == state \in {EmptyState} \cup TestStates /\ Idle

\* a caller applies try_move and goes on from the successor board
Move(column) ==
    /\ pc = "idle"
    /\ \/ turn(state) < MaxMoves
       \/ Endgame(state)
       \/ state \in TestStates
       \/ Recorded(state, column)
    /\ try_move(state, column).kind = "State"
    /\ state' = try_move(state, column).state
    /\ UNCHANGED <<pc, depth, parallelize, move_states, moves_evals, pending, result>>

NextBoard == \E column \in ColumnIdx : Move(column)

SpecBoard == InitBoard /\ [][NextBoard]_vars

\* the boards of a game: the same moves, from the empty board of main only
SpecGame == Init /\ [][NextBoard]_vars

\* main calls find_next_move(&state, d, par): the column loop, then either
\* the early return or the result slots filled with (255, Neutral)
Call(d, par) ==
    /\ pc = "idle"
    /\ depth' = d
    /\ parallelize' = par
    /\ LET c == collect(state, 0, <<>>)
       IN  IF c.victory
           THEN /\ result' = [moves |-> <<c.column>>, eval |-> ImmediateVictory]
                /\ pc' = "done"
                /\ UNCHANGED <<move_states, moves_evals, pending>>
           ELSE /\ move_states' = c.move_states
                /\ moves_evals' = [i \in 1 .. Len(c.move_states) |-> <<PLACEHOLDER, Neutral>>]
                /\ pending' = 1 .. Len(c.move_states)
                /\ pc' = "eval"
                /\ UNCHANGED result
    /\ UNCHANGED state

\* iter_mut().zip(..).for_each(eval): every candidate in index order
SeqEval ==
    /\ pc = "eval"
    /\ ~parallelize
    /\ pending # {}
    /\ moves_evals' = [i \in 1 .. Len(move_states) |-> eval(move_states[i], depth)]
    /\ pending' = {}
    /\ UNCHANGED <<state, pc, depth, parallelize, move_states, result>>

\* faulty variant: a worker writes the slot before its own
slot_before(i) == IF i > 1 THEN i - 1 ELSE i

\* the slot a worker writes for the candidate at index i
slot_of(i) == i

\* par_iter_mut().zip(..).for_each(eval): the worker of candidate i runs
Worker(i) ==
    /\ pc = "eval"
    /\ parallelize
    /\ i \in pending
    /\ moves_evals' = [moves_evals EXCEPT ![slot_of(i)] = eval(move_states[i], depth)]
    /\ pending' = pending \ {i}
    /\ UNCHANGED <<state, pc, depth, parallelize, move_states, result>>

\* for_each has returned: aggregate the slots and return
Classify ==
    /\ pc = "eval"
    /\ pending = {}
    /\ result' = classify(moves_evals)
    /\ pc' = "done"
    /\ move_states' = <<>>
    /\ moves_evals' = <<>>
    /\ UNCHANGED <<state, depth, parallelize, pending>>

\* the rest of main's loop body: pick a column of next_move and play it
Pick ==
    /\ pc = "done"
    /\ IF result.moves = <<>>
       THEN pc' = "draw" /\ UNCHANGED <<state, depth, parallelize, result>>
       ELSE \E i \in 1 .. Len(result.moves) :
              LET column == result.moves[i]
              IN  IF result.eval = ImmediateVictory
                  THEN pc' = "victory" /\ UNCHANGED <<state, depth, parallelize, result>>
                  ELSE /\ Endgame(state) \/ Recorded(state, column)
                       /\ IF column \in ColumnIdx /\ try_move(state, column).kind = "State"
                          THEN /\ state' = try_move(state, column).state
                               /\ pc' = "idle"
                               /\ depth' = 0
                               /\ parallelize' = FALSE
                               /\ result' = NoResult
                          ELSE /\ pc' = "unreachable"
                               /\ UNCHANGED <<state, depth, parallelize, result>>
    /\ UNCHANGED <<move_states, moves_evals, pending>>

Next ==
    \/ \E d \in 0 .. MaxDepth, par \in BOOLEAN : Call(d, par)
    \/ SeqEval
    \/ \E i \in 1 .. SEARCH_COLUMNS : Worker(i)
    \/ Classify
    \/ Pick

Spec == Init /\ [][Next]_vars

\* main runs on: it calls find_next_move, the evaluation phase does not last
\* for ever (every candidate is evaluated and for_each returns), the slots
\* are aggregated and the loop body picks
SpecFair ==
    /\ Spec
    /\ WF_vars(\E d \in 0 .. MaxDepth, par \in BOOLEAN : Call(d, par))
    /\ []<>(pc # "eval" \/ pending = {})
    /\ WF_vars(Classify)
    /\ WF_vars(Pick)

\* ================================================================ claims
\* ---------------------------------------------------- the game as played
\* the lowest empty cell of a column that has one
Landing(self, column) ==
    CHOOSE r \in RowIdx :
        /\ At(self, column, r) = Empty
        /\ \A below \in RowIdx : below > r => At(self, column, below) # Empty

ColumnFull(self, column) == \A r \in RowIdx : At(self, column, r) # Empty

Directions == {<<1, 0>>, <<0, 1>>, <<1, -1>>, <<1, 1>>}

\* four cells in a line along dir, the k-th of them (column, r), that all hold
\* the mover once the mover's piece lies on (column, r)
FourThrough(self, column, r, dir, k) ==
    \A i \in 0 .. (WINNING_LENGTH - 1) :
        LET c == column + (i - k) * dir[1]
            rr == r + (i - k) * dir[2]
        IN  /\ c \in ColumnIdx
            /\ rr \in RowIdx
            /\ (c = column /\ rr = r) \/ At(self, c, rr) = Set(self.player)

CompletesAlong(self, column, dirs) ==
    \E dir \in dirs, k \in 0 .. (WINNING_LENGTH - 1) :
        FourThrough(self, column, Landing(self, column), dir, k)

Completes(self, column) == CompletesAlong(self, column, Directions)

\* C3: on a column whose top cell is empty, try_move returns Victory exactly
\* when the mover's piece on the lowest empty cell of the column completes a
\* line of at least four of the mover's cells (horizontal, vertical or
\* diagonal); otherwise it returns a successor State.
C3_VictoryIffLine ==
    \A column \in ColumnIdx :
        At(state, column, 0) = Empty =>
            /\ try_move(state, column).kind = "Victory" <=> Completes(state, column)
            /\ ~Completes(state, column) => try_move(state, column).kind = "State"

\* a column wins along a diagonal only
C3_Witness ==
    \E column \in ColumnIdx :
        /\ state \notin TestStates
        /\ At(state, column, 0) = Empty
        /\ try_move(state, column).kind = "Victory"
        /\ CompletesAlong(state, column, {<<1, -1>>})
        /\ ~CompletesAlong(state, column, {<<1, 0>>, <<0, 1>>, <<1, 1>>})

\* C4: a successor State has one more occupied cell, the new piece is the
\* mover's and lies on the lowest empty cell of the column, every other cell
\* is as before, and the other player is to move.
C4_SuccessorFrame ==
    \A column \in ColumnIdx :
        try_move(state, column).kind = "State" =>
            LET next == try_move(state, column).state
                r == Landing(state, column)
            IN  /\ turn(next) = turn(state) + 1
                /\ At(state, column, r) = Empty
                /\ At(next, column, r) = Set(state.player)
                /\ \A c \in ColumnIdx, rr \in RowIdx :
                       <<c, rr>> # <<column, r>> => At(next, c, rr) = At(state, c, rr)
                /\ next.player = other(state.player)
                /\ next.player # state.player

\* a piece can land on top of another one
C4_Witness ==
    /\ state.player = X
    /\ \E column \in ColumnIdx :
           /\ try_move(state, column).kind = "State"
           /\ Landing(state, column) < ROWS - 1

\* C5: try_move on a full column returns Impossible, and it returns
\* Impossible only on a full column.
C5_ImpossibleIffFull ==
    \A column \in ColumnIdx :
        ColumnFull(state, column) <=> try_move(state, column).kind = "Impossible"

\* a full column next to one that is not full
C5_Witness ==
    /\ state \notin TestStates
    /\ \E column \in ColumnIdx : ColumnFull(state, column)
    /\ \E column \in ColumnIdx :
           ~ColumnFull(state, column) /\ At(state, column, ROWS - 1) # Empty

\* ------------------------------------------------------ the search result
StateColumns(self) == {c \in ColumnIdx : try_move(self, c).kind = "State"}

VictoryColumns(self) == {c \in ColumnIdx : try_move(self, c).kind = "Victory"}

\* the evaluation of the board that column leads to, one level down
ChildEval(self, column, d) ==
    IF d > 0 THEN find_next_move(try_move(self, column).state, d - 1).eval ELSE Neutral

\* the columns of S in ascending order
Ascending(S) ==
    [i \in 1 .. Cardinality(S) |-> CHOOSE c \in S : Cardinality({x \in S : x < c}) = i - 1]

Lowest(S) == CHOOSE c \in S : \A x \in S : c <= x

Returned == pc = "done"

\* the board after the mover's piece has dropped into the column
Drop(self, column) ==
    State([self.cells EXCEPT ![Landing(self, column)][column] = Set(self.player)],
          other(self.player))

\* the mover completes a line within n plies whatever the opponent replies /
\* the mover has a move and the opponent wins within n plies after each one
RECURSIVE CanForceWin(_, _), MustLose(_, _)
CanForceWin(self, n) ==
    /\ n > 0
    /\ \E c \in ColumnIdx :
           /\ ~ColumnFull(self, c)
           /\ Completes(self, c) \/ MustLose(Drop(self, c), n - 1)

MustLose(self, n) ==
    /\ n > 0
    /\ \E c \in ColumnIdx : ~ColumnFull(self, c)
    /\ \A c \in ColumnIdx :
           ~ColumnFull(self, c) =>
               ~Completes(self, c) /\ CanForceWin(Drop(self, c), n - 1)

\* C1: on a board whose 7 columns are all rejected find_next_move returns the
\* empty MoveSet with the evaluation Neutral, for every depth and either flag.
C1_FullBoardNeutral ==
    (Returned /\ \A c \in ColumnIdx : try_move(state, c).kind = "Impossible")
        => result = [moves |-> <<>>, eval |-> Neutral]

\* C2: AssuredVictory means the player to move can force a line of four,
\* AssuredLoss means the player to move has a move and the opponent can force
\* a line of four after each of them.
C2_DecisiveSound ==
    Returned =>
        /\ result.eval = AssuredVictory => CanForceWin(state, depth + 1)
        /\ result.eval = AssuredLoss => MustLose(state, depth + 1)

\* C6: when a column wins, find_next_move returns ImmediateVictory with the
\* lowest winning column alone, at every depth and with either flag, and no
\* successor board is evaluated.
C6_FirstVictoryOnly ==
    VictoryColumns(state) # {} =>
        /\ pc # "eval"
        /\ Returned =>
               result = [moves |-> <<Lowest(VictoryColumns(state))>>,
                         eval |-> ImmediateVictory]

\* two columns win and the parallel search at depth 0 has returned
C6_Witness ==
    /\ Returned
    /\ parallelize
    /\ depth = 0
    /\ Cardinality(VictoryColumns(state)) >= 2

\* C7: a parallel search returns what the sequential search returns; while
\* the workers run, a slot holds the placeholder until the worker of its own
\* candidate has written it, and the result is formed after the last worker.
C7_ParallelAsSequential ==
    /\ pc = "eval" =>
           /\ Len(moves_evals) = Len(move_states)
           /\ \A i \in 1 .. Len(move_states) :
                  IF i \in pending
                  THEN moves_evals[i] = <<PLACEHOLDER, Neutral>>
                  ELSE moves_evals[i][1] = move_states[i][1]
    /\ (Returned /\ parallelize) =>
           /\ pending = {}
           /\ result = find_next_move(state, depth)

\* a parallel search over several candidates has returned a forced win and
\* has dropped a candidate
C7_Witness ==
    /\ Returned
    /\ parallelize
    /\ result.eval = AssuredVictory
    /\ Len(result.moves) < Cardinality(StateColumns(state))
    /\ Cardinality(StateColumns(state)) < COLUMNS

\* C8: a Neutral result on a board with a legal move lists exactly the legal
\* columns whose successor was not evaluated ImmediateVictory or
\* AssuredVictory one level down.
C8_NeutralMoves ==
    (Returned /\ result.eval = Neutral /\ StateColumns(state) # {}) =>
        result.moves =
            Ascending({c \in StateColumns(state) :
                          ChildEval(state, c, depth)
                              \notin {ImmediateVictory, AssuredVictory}})

\* a Neutral result that has dropped a column
C8_Witness ==
    /\ Returned
    /\ result.eval = Neutral
    /\ result.moves # <<>>
    /\ Len(result.moves) < Cardinality(StateColumns(state))

\* C9: the result is AssuredVictory exactly when no column wins at once, some
\* successor was evaluated AssuredLoss one level down and not every successor
\* was evaluated ImmediateVictory or AssuredVictory; the MoveSet is then
\* exactly the columns whose successor was evaluated AssuredLoss.
C9_AssuredVictory ==
    Returned =>
        LET losing == {c \in StateColumns(state) :
                          ChildEval(state, c, depth) = AssuredLoss}
            winning == {c \in StateColumns(state) :
                           ChildEval(state, c, depth)
                               \in {ImmediateVictory, AssuredVictory}}
        IN  /\ result.eval = AssuredVictory <=>
                   /\ VictoryColumns(state) = {}
                   /\ losing # {}
                   /\ winning # StateColumns(state)
            /\ result.eval = AssuredVictory => result.moves = Ascending(losing)

\* a forced win found at depth 2 that keeps some columns and drops others
C9_Witness ==
    /\ Returned
    /\ result.eval = AssuredVictory
    /\ depth = 2
    /\ Len(result.moves) < Cardinality(StateColumns(state))

\* C10: an AssuredLoss result on a board with a legal move lists every legal
\* column, and when no column wins at once the MoveSet is empty exactly when
\* every column is full.
C10_NoMoveHidden ==
    Returned =>
        /\ (result.eval = AssuredLoss /\ StateColumns(state) # {}) =>
               result.moves = Ascending(StateColumns(state))
        /\ VictoryColumns(state) = {} =>
               (result.moves = <<>> <=> \A c \in ColumnIdx : ColumnFull(state, c))

\* every move of a board with several open columns loses
C10_Witness ==
    /\ Returned
    /\ result.eval = AssuredLoss
    /\ Len(result.moves) >= 2
    /\ Len(result.moves) = Cardinality({c \in ColumnIdx : ~ColumnFull(state, c)})

\* ------------------------------------------------- the boards of a game
\* the number of cells a player holds
Count(self, player) ==
    Cardinality({cr \in ColumnIdx \X RowIdx : At(self, cr[1], cr[2]) = Set(player)})

\* C11: on every board reached from the empty board the two players' cell
\* counts differ by at most one, the player to move holds no more cells than
\* the opponent, and O is to move exactly when the counts are equal.
C11_TurnParity ==
    LET o == Count(state, O)
        x == Count(state, X)
    IN  /\ o - x \in {-1, 0, 1}
        /\ Count(state, state.player) <= Count(state, other(state.player))
        /\ state.player = O <=> o = x

\* X is to move on a board with a full column
C11_Witness ==
    /\ state.player = X
    /\ Count(state, O) = Count(state, X) + 1
    /\ \E column \in ColumnIdx : ColumnFull(state, column)

\* --------------------------------------------------- more on the search
\* the columns that are not full
Legal(self) == {c \in ColumnIdx : ~ColumnFull(self, c)}

\* the mover has a move, none of them completes a line, and after each of
\* them some column completes a line of the opponent
BoxedIn(self) ==
    /\ Legal(self) # {}
    /\ \A c \in Legal(self) :
           /\ ~Completes(self, c)
           /\ \E reply \in Legal(Drop(self, c)) : Completes(Drop(self, c), reply)

\* C12: with a depth of at least 1, on a board where the mover has a legal
\* move, no winning column, and the opponent has a winning column after each
\* legal move, find_next_move returns the evaluation AssuredLoss.
C12_BoxedInLoses ==
    (Returned /\ depth >= 1 /\ BoxedIn(state)) => result.eval = AssuredLoss

\* a boxed-in mover with several open columns and cells to spare
C12_Witness ==
    /\ Returned
    /\ depth >= 1
    /\ BoxedIn(state)
    /\ Cardinality(Legal(state)) >= 3
    /\ ROWS * COLUMNS - turn(state) > MaxFree

\* no legal column completes a line of the mover
NoWinningColumn(self) == \A c \in Legal(self) : ~Completes(self, c)

\* C13: with depth 0, on a board with a playable column and no winning
\* column, no successor is searched (every slot is written Neutral) and the
\* result is Neutral with the MoveSet of all playable columns.
C13_DepthZeroNeutral ==
    (depth = 0 /\ Legal(state) # {} /\ NoWinningColumn(state)) =>
        /\ pc = "eval" =>
               \A i \in 1 .. Len(moves_evals) :
                   i \notin pending => moves_evals[i][2] = Neutral
        /\ Returned =>
               result = [moves |-> Ascending(Legal(state)), eval |-> Neutral]

\* depth 0 has returned on a board with a full column where a move hands the
\* opponent a winning column
C13_Witness ==
    /\ Returned
    /\ depth = 0
    /\ NoWinningColumn(state)
    /\ Cardinality(Legal(state)) \in 2 .. (COLUMNS - 1)
    /\ \E c \in Legal(state) :
           \E reply \in Legal(Drop(state, c)) : Completes(Drop(state, c), reply)

\* ------------------------------------------------------------ symmetries
\* the board seen in a mirror: column c becomes column COLUMNS - 1 - c
Mirror(self) ==
    State([r \in RowIdx |-> [c \in ColumnIdx |-> self.cells[r][COLUMNS - 1 - c]]],
          self.player)

\* the board with the two players' labels exchanged
Swap(self) ==
    State([r \in RowIdx |-> [c \in ColumnIdx |->
              IF self.cells[r][c] = Empty THEN Empty ELSE Set(other(self.cells[r][c]))]],
          other(self.player))

MirrorResult(res) == IF res.kind = "State" THEN Continues(Mirror(res.state)) ELSE res

SwapResult(res) == IF res.kind = "State" THEN Continues(Swap(res.state)) ELSE res

\* C14: try_move on the mirrored board and the mirrored column gives the
\* mirrored result, and try_move on the board with the players' labels
\* exchanged gives the result with the labels exchanged.
C14_Symmetric ==
    \A column \in ColumnIdx :
        /\ try_move(Mirror(state), COLUMNS - 1 - column)
               = MirrorResult(try_move(state, column))
        /\ try_move(Swap(state), column) = SwapResult(try_move(state, column))

\* a board that is not its own mirror image, with a full column, a column
\* that continues and a column that wins along a diagonal only
C14_Witness ==
    /\ state \notin TestStates
    /\ Mirror(state) # state
    /\ \E column \in ColumnIdx : try_move(state, column).kind = "Impossible"
    /\ \E column \in ColumnIdx : try_move(state, column).kind = "State"
    /\ \E column \in ColumnIdx :
           /\ try_move(state, column).kind = "Victory"
           /\ try_move(Mirror(state), COLUMNS - 1 - column).kind = "Victory"
           /\ try_move(Swap(state), column).kind = "Victory"
           /\ ~CompletesAlong(state, column, {<<1, 0>>, <<0, 1>>})

\* ------------------------------------------------ what a board can hold
\* WINNING_LENGTH cells in a line from (column, r) along dir, all of one player
LineFrom(self, column, r, dir) ==
    /\ At(self, column, r) # Empty
    /\ \A i \in 1 .. (WINNING_LENGTH - 1) :
           /\ column + i * dir[1] \in ColumnIdx
           /\ r + i * dir[2] \in RowIdx
           /\ At(self, column + i * dir[1], r + i * dir[2]) = At(self, column, r)

HasLine(self) ==
    \E column \in ColumnIdx, r \in RowIdx, dir \in Directions :
        LineFrom(self, column, r, dir)

\* C15: no board reached from the empty board through try_move successor
\* results holds four contiguous cells of one player in a row, a column or
\* a diagonal.
C15_NoWinningBoard == ~HasLine(state)

\* a piece away from a line: one column wins and another one continues
C15_Witness ==
    /\ \E column \in Legal(state) :
           try_move(state, column).kind = "Victory" /\ HasLine(Drop(state, column))
    /\ \E column \in ColumnIdx : try_move(state, column).kind = "State"
    /\ turn(state) >= 2 * WINNING_LENGTH

\* the number of occupied cells of a column
Height(self, column) == Cardinality({r \in RowIdx : At(self, column, r) # Empty})

\* C16: on every board reached from the empty board no occupied cell has an
\* empty cell below it in its column, and the row try_move fills in a column
\* that is not full is the lowest empty cell of the column.
C16_Gravity ==
    /\ \A column \in ColumnIdx, r \in 0 .. (ROWS - 2) :
           At(state, column, r) # Empty => At(state, column, r + 1) # Empty
    /\ \A column \in Legal(state) :
           /\ row(state, column) = ROWS - 1 - Height(state, column)
           /\ At(state, column, row(state, column)) = Empty
           /\ \A below \in RowIdx :
                  below > row(state, column) => At(state, column, below) # Empty

\* an empty column, a column with one free cell and a full column
C16_Witness ==
    /\ \E column \in ColumnIdx : Height(state, column) = 0
    /\ \E column \in ColumnIdx : Height(state, column) = ROWS - 1
    /\ \E column \in ColumnIdx : Height(state, column) = ROWS

\* -------------------------------------------------------- the game loop
\* C17: a returned MoveSet is strictly ascending and holds only columns of
\* the board that are not full, never the placeholder; when the evaluation
\* is not ImmediateVictory try_move gives a successor State on each of them,
\* and the game loop never takes its unreachable arm.
C17_MoveSetLegal ==
    /\ Returned =>
           /\ \A i \in 1 .. Len(result.moves) :
                  /\ result.moves[i] # PLACEHOLDER
                  /\ result.moves[i] \in 0 .. (SEARCH_COLUMNS - 1)
                  /\ result.moves[i] \in Legal(state)
                  /\ result.eval # ImmediateVictory =>
                         try_move(state, result.moves[i]).kind = "State"
           /\ \A i, j \in 1 .. Len(result.moves) :
                  i < j => result.moves[i] < result.moves[j]
    /\ pc # "unreachable"

\* a parallel search has returned several columns to the right of a full one
\* and the evaluation is not ImmediateVictory
C17_Witness ==
    /\ Returned
    /\ parallelize
    /\ depth >= 1
    /\ result.eval # ImmediateVictory
    /\ Len(result.moves) >= 2
    /\ \E column \in ColumnIdx : ColumnFull(state, column) /\ column < result.moves[1]

\* the loop of main has ended
Ended == pc \in {"victory", "draw"}

\* every column the loop body could pick lies outside the explored games
Unexplored ==
    /\ Returned
    /\ result.moves # <<>>
    /\ result.eval # ImmediateVictory
    /\ \A i \in 1 .. Len(result.moves) :
           ~(Endgame(state) \/ Recorded(state, result.moves[i]))

\* one step of main: the board changes only when the loop body plays, by one
\* piece; the loop body ends the game or plays; nothing follows the end
LoopStep ==
    /\ ~Ended
    /\ state' # state =>
           pc = "done" /\ pc' = "idle" /\ turn(state') = turn(state) + 1
    /\ (pc = "done" /\ pc' # "done") =>
           \/ pc' \in {"victory", "draw"} /\ state' = state
           \/ pc' = "idle" /\ turn(state') = turn(state) + 1

\* C18: the game loop terminates: every iteration ends the game (Victory or
\* Draw) or adds exactly one piece to the board, at most ROWS * COLUMNS
\* pieces are placed, Victory is announced only when every column that can be
\* picked completes a line of the player to move, and Draw only when the
\* board is full.
C18_LoopTerminates ==
    /\ [](turn(state) <= ROWS * COLUMNS)
    /\ [](pc = "victory" =>
             /\ result.eval = ImmediateVictory
             /\ \A i \in 1 .. Len(result.moves) :
                    /\ result.moves[i] \in Legal(state)
                    /\ Completes(state, result.moves[i]))
    /\ [](pc = "draw" => Legal(state) = {})
    /\ [][LoopStep]_vars
    /\ <>(Ended \/ Unexplored)

\* the loop has ended in a draw after ROWS * COLUMNS pieces
C18_Witness == pc = "draw" /\ turn(state) = ROWS * COLUMNS

\* the loop has ended in a victory on a board it has played on
C18_WitnessVictory == pc = "victory" /\ turn(state) > MaxMoves

\* ------------------------------------------------------ a deeper search
\* C19: when find_next_move returns ImmediateVictory, AssuredVictory or
\* AssuredLoss at some depth, it returns the same evaluation at the depth
\* above it.
C19_DecisiveStable ==
    (Returned /\ result.eval # Neutral) =>
        find_next_move(state, depth + 1).eval = result.eval

\* a forced result found at depth 1 or more with cells to spare on the board
C19_Witness ==
    /\ Returned
    /\ depth >= 1
    /\ result.eval \in {AssuredVictory, AssuredLoss}
    /\ ROWS * COLUMNS - turn(state) > MaxFree

\* ------------------------------------------- indices and 8-bit arithmetic
InGrid(c, r) == c \in ColumnIdx /\ r \in RowIdx

U8 == 0 .. 255

\* the index pairs (column + dc*offset, r + dr*offset) one scanning loop of
\* try_move computes and reads, up to the cell that breaks the loop
RECURSIVE scan_reads(_, _, _, _, _, _, _)
scan_reads(self, column, r, dc, dr, offset, end) ==
    IF offset >= end THEN {}
    ELSE LET c == column + dc * offset
             rr == r + dr * offset
         IN  {<<c, rr>>} \cup
             IF InGrid(c, rr) /\ At(self, c, rr) = Set(self.player)
             THEN scan_reads(self, column, r, dc, dr, offset + 1, end)
             ELSE {}

\* the cells the nested fn row reads, and the row it computes
row_reads(self, column) ==
    {<<column, rr>> : rr \in 1 .. Min(row(self, column) + 1, ROWS - 1)}

\* the cells read and the 8-bit values computed by the horizontal check
horizontal_reads(self, column, r) ==
    scan_reads(self, column, r, -1, 0, 1, column + 1)
        \cup scan_reads(self, column, r, 1, 0, 1, COLUMNS - column)

horizontal_values(self, column, r) ==
    LET min_column == column - count_run(self, column, r, -1, 0, 1, column + 1)
        max_column == column + count_run(self, column, r, 1, 0, 1, COLUMNS - column)
    IN  {column + 1, min_column, max_column,
         max_column - min_column, max_column - min_column + 1}

\* the same for the vertical check
vertical_reads(self, column, r) ==
    scan_reads(self, column, r, 0, -1, 1, r + 1)
        \cup scan_reads(self, column, r, 0, 1, 1, ROWS - r)

vertical_values(self, column, r) ==
    LET min_row == r - count_run(self, column, r, 0, -1, 1, r + 1)
        max_row == r + count_run(self, column, r, 0, 1, 1, ROWS - r)
    IN  {r + 1, min_row, max_row, max_row - min_row, max_row - min_row + 1}

\* the same for the diagonal from the bottom left to the top right
diagonal_up_reads(self, column, r) ==
    scan_reads(self, column, r, -1, 1, 1, up_left_end(column, r))
        \cup scan_reads(self, column, r, 1, -1, 1, up_right_end(column, r))

diagonal_up_values(self, column, r) ==
    LET min == column - count_run(self, column, r, -1, 1, 1, up_left_end(column, r))
        max == column + count_run(self, column, r, 1, -1, 1, up_right_end(column, r))
    IN  {ROWS - r, column + 1, up_left_end(column, r),
         r + 1, COLUMNS - column, up_right_end(column, r),
         min, max, max - min, max - min + 1}

\* the same for the diagonal from the top left to the bottom right
diagonal_down_reads(self, column, r) ==
    scan_reads(self, column, r, -1, -1, 1, down_left_end(column, r))
        \cup scan_reads(self, column, r, 1, 1, 1, down_right_end(column, r))

diagonal_down_values(self, column, r) ==
    LET min == column - count_run(self, column, r, -1, -1, 1, down_left_end(column, r))
        max == column + count_run(self, column, r, 1, 1, 1, down_right_end(column, r))
    IN  {Min(r, column), down_left_end(column, r),
         ROWS - r, COLUMNS - column, down_right_end(column, r),
         min, max, max - min, max - min + 1}

AllInGrid(cells) == \A cell \in cells : InGrid(cell[1], cell[2])

\* try_move(self, column) from its first line to its return: every cell it
\* indexes lies in the grid and every 8-bit value it computes is in 0..255;
\* a check is reached only when the checks before it have not returned
try_move_in_range(self, column) ==
    /\ InGrid(column, 0)
    /\ playable(self, column) =>
           LET r == row(self, column)
           IN  /\ AllInGrid(row_reads(self, column))
               /\ r \in U8
               /\ AllInGrid(horizontal_reads(self, column, r))
               /\ horizontal_values(self, column, r) \subseteq U8
               /\ \/ horizontal(self, column, r)
                  \/ /\ AllInGrid(vertical_reads(self, column, r))
                     /\ vertical_values(self, column, r) \subseteq U8
                     /\ \/ vertical(self, column, r)
                        \/ /\ AllInGrid(diagonal_up_reads(self, column, r))
                           /\ diagonal_up_values(self, column, r) \subseteq U8
                           /\ \/ diagonal_up(self, column, r)
                              \/ /\ AllInGrid(diagonal_down_reads(self, column, r))
                                 /\ diagonal_down_values(self, column, r) \subseteq U8
                                 /\ diagonal_down(self, column, r) \/ InGrid(column, r)

\* C20: for every board and every column 0..6 try_move indexes no cell
\* outside the 7x6 grid and none of its unsigned 8-bit computations leaves
\* 0..255.
C20_InRange ==
    \A column \in 0 .. (SEARCH_COLUMNS - 1) : try_move_in_range(state, column)

\* all four checks run and the scan to the top left follows the mover's
\* cells up to the edge of the grid
C20_Witness ==
    /\ state \notin TestStates
    /\ \E column \in Legal(state) :
           LET r == row(state, column)
           IN  /\ ~horizontal(state, column, r)
               /\ ~vertical(state, column, r)
               /\ ~diagonal_up(state, column, r)
               /\ down_left_end(column, r) >= 2
               /\ count_run(state, column, r, -1, -1, 1, down_left_end(column, r))
                      = down_left_end(column, r) - 1

====
